---- MODULE Spec2Model ----
(***************************************************************************)
(* A model of two units of onnx-mlir:                                      *)
(*   - the ONNX graph importer of                                          *)
(*     src/builder/frontend_dialect_transformer.cpp (FrontendGenImpl), and *)
(*   - the OMTensor runtime descriptor of OMTensor.inc.                    *)
(* Spec is the importer; the tensor runtime has specifications of its own  *)
(* further down.  Names are sequences of one-character strings so that     *)
(* legalize_name can be computed as the code computes it.                  *)
(***************************************************************************)
EXTENDS Integers, Sequences, FiniteSets, TLC

(***************************************************************************)
(* Bounds of the model.                                                    *)
(***************************************************************************)
MaxInputs == 2

MaxNodes == 2

MaxOutputs == 2

\* OMTensor runtime: descriptors created, buffers the caller allocated
MaxTensors == 1

MaxBuffers == 1

\* omTensorAreTwoOmtsClose: elements in -MaxElem..MaxElem, tolerances in halves
\* up to MaxTol2 / 2
MaxElem == 2

MaxTol2 == 3

\* omTensorSetShape / omTensorSetStrides: array entries in 0..MaxExtent
MaxExtent == 3

\* the rank of the shape arrays a caller hands to a creation
MaxRank == 3

\* legalize_name: names of up to MaxLen characters
MaxLen == 3

\* omTensorGetElemByOffset: linear offsets in 0..MaxOffset
MaxOffset == 1

VARIABLES
  \* ---- importer (FrontendGenImpl) ----
  graph,              \* the GraphProto: input (fixed), node and output consumed so far
  pc,                 \* position in ImportGraph
  it,                 \* the number of items the current loop has consumed
  arg_types,          \* ImportGraph's arg_types
  func_type,          \* main_func's type: [inputs, results], or NoFunc before creation
  block,              \* the entry block: the operations constructed so far, in order
  onnx_name2onnf_tensor, \* frontend_symbols_: legalized name -> value
  ret_types,          \* ImportGraph's ret_types
  ret_vals,           \* ImportGraph's ret_vals
  status,             \* "running", "done", or how the import stopped
  \* ---- OMTensor runtime ----
  heap,               \* the malloc'ed blocks, in allocation order: kind, live, frees
  tensors,            \* the OMTensor structs, by block
  mem,                \* the contents of the shape and stride arrays, by block
  buffers,            \* the data buffers the caller allocated itself
  handles,            \* the descriptors the caller holds and has not destroyed
  call,               \* the last API call: its arguments, result and events
  rtStatus,           \* "running", or how the process stopped
  \* ---- omTensorAreTwoOmtsClose ----
  cmp,                \* the two tensors, the tolerances, and the verdict
  \* ---- functions called on their own ----
  eval                \* the function, its arguments, and what it returned

impVars == <<graph, pc, it, arg_types, func_type, block, onnx_name2onnf_tensor,
             ret_types, ret_vals, status>>

rtVars == <<heap, tensors, mem, buffers, handles, call, rtStatus>>

cmpVars == <<cmp>>

evalVars == <<eval>>

vars == <<impVars, rtVars, cmpVars, evalVars>>

(***************************************************************************)
(* Sequence helpers.                                                       *)
(***************************************************************************)
SeqsUpTo(S, n) == UNION {[1..k -> S] : k \in 0..n}

Range(s) == {s[k] : k \in 1..Len(s)}

(***************************************************************************)
(* legalize_name and replaceAll.                                           *)
(***************************************************************************)
Digits == {"0", "1", "2", "3", "4", "5", "6", "7", "8", "9"}

\* an isdigit that finds no digit
isdigit_Never(c) == FALSE

isdigit(c) == c \in Digits

\* std::replace(begin, end, from, to) on characters
std_replace(str, from, to) ==
  [k \in 1..Len(str) |-> IF str[k] = from THEN to ELSE str[k]]

\* str.find(from, start_pos): the first 0-based position >= start_pos where
\* from occurs, or -1 (npos)
find(str, from, start_pos) ==
  LET hits == {p \in start_pos..(Len(str) - Len(from)) :
                 SubSeq(str, p + 1, p + Len(from)) = from}
  IN IF hits = {} THEN -1
     ELSE CHOOSE p \in hits : \A q \in hits : p <= q

RECURSIVE replaceAllFrom(_, _, _, _)
replaceAllFrom(str, from, to, start_pos) ==
  LET pos == find(str, from, start_pos)
  IN IF pos = -1 THEN str
     ELSE replaceAllFrom(
            SubSeq(str, 1, pos) \o to \o SubSeq(str, pos + Len(from) + 1, Len(str)),
            from, to, pos + Len(to))

replaceAll(str, from, to) ==
  IF from = <<>> THEN str ELSE replaceAllFrom(str, from, to, 0)

colon_ == <<"_", "c", "o", "l", "o", "n", "_">>

legalize_name(name) ==
  LET s1 == std_replace(name, "/", "_")
      s2 == std_replace(s1, "-", "_")
      s3 == replaceAll(s2, <<":">>, colon_)
  IN IF Len(s3) > 0 /\ isdigit(s3[1]) THEN <<"n">> \o s3 ELSE s3

(***************************************************************************)
(* OnnxOnnfSymbolMapping: a std::map from string to Value*.                *)
(***************************************************************************)
\* std::map::at throws std::out_of_range for a missing key
OutOfRange == [kind |-> "std::out_of_range", def |-> 0, idx |-> 0]

GetTensorByOnnxName(m, name) ==
  IF legalize_name(name) \in DOMAIN m THEN m[legalize_name(name)] ELSE OutOfRange

\* std::map::emplace inserts only when the key is absent
emplace(m, key, tensor) ==
  IF key \in DOMAIN m THEN m
  ELSE [k \in DOMAIN m \cup {key} |-> IF k = key THEN tensor ELSE m[k]]

\* an AddMapping that stores the name as it comes
AddMapping_Raw(m, name, tensor) == emplace(m, name, tensor)

AddMapping(m, name, tensor) == emplace(m, legalize_name(name), tensor)

\* a ContainKey that finds nothing
ContainKey_Never(m, name) == FALSE

\* a ContainKey that finds everything
ContainKey_Always(m, name) == TRUE

ContainKey(m, name) == name \in DOMAIN m

(***************************************************************************)
(* Types and values of the IR.                                             *)
(***************************************************************************)
\* An int64_t is four 16-bit limbs, least significant first (two's complement):
\* the checker's integers are narrower than 64 bits.
Limb == 2 ^ 16

\* the int64_t of a small integer, -Limb <= n < Limb
I64(n) == IF n >= 0 THEN <<n, 0, 0, 0>>
          ELSE <<n + Limb, Limb - 1, Limb - 1, Limb - 1>>

I64IsZero(d) == \A k \in 1..4 : d[k] = 0

\* the conversion int64_t -> int: the low 32 bits, read as signed
I64ToInt(d) == IF d[2] >= Limb \div 2 THEN (d[2] - Limb) * Limb + d[1]
               ELSE d[2] * Limb + d[1]

TypeConvert(intype) ==
  CASE intype = "FLOAT16" -> "f16"
    [] intype = "FLOAT" -> "f32"
    [] intype = "DOUBLE" -> "f64"
    [] intype \in {"INT8", "UINT8"} -> "i8"
    [] intype \in {"INT16", "UINT16"} -> "i16"
    [] intype \in {"INT32", "UINT32"} -> "i32"
    [] intype \in {"INT64", "UINT64"} -> "i64"
    [] intype = "BOOL" -> "i1"
    [] OTHER -> "nullptr"

RankedTensorType(dims, elementType) ==
  [kind |-> "ranked", dims |-> dims, elem |-> elementType]

UnrankedTensorType(elementType) ==
  [kind |-> "unranked", dims |-> <<>>, elem |-> elementType]

\* one dimension of ImportInputTensorType
ImportDim(dim_value) ==
  IF ~I64IsZero(dim_value)
    THEN LET dim_numeric_size == I64ToInt(dim_value)
         IN IF dim_numeric_size > 0 THEN dim_numeric_size ELSE -1
    ELSE -1

InputTensorType(input) ==
  RankedTensorType([k \in 1..Len(input.dim) |-> ImportDim(input.dim[k])],
                   TypeConvert(input.elem_type))

\* A Value* is a block argument, an operation result, or (after an
\* out-of-bounds read) an indeterminate pointer.
BlockArgument(k) == [kind |-> "arg", def |-> k, idx |-> 0]

OpResult(op, k) == [kind |-> "res", def |-> op, idx |-> k]

Garbage == [kind |-> "garbage", def |-> 0, idx |-> 0]

NoFunc == [inputs |-> <<>>, results |-> <<>>, created |-> FALSE]

FunctionType(inputs, results) ==
  [inputs |-> inputs, results |-> results, created |-> TRUE]

\* Value::getType()
getType(v) ==
  CASE v.kind = "arg" -> arg_types[v.def]
    [] v.kind = "res" -> block[v.def].types[v.idx]
    [] OTHER -> [kind |-> "garbage", dims |-> <<>>, elem |-> "garbage"]

(***************************************************************************)
(* The graphs the importer is run on.                                      *)
(***************************************************************************)
nx == <<"x">>

ny == <<"y">>

na_slash_b == <<"a", "/", "b">>

na_dash_b == <<"a", "-", "b">>

\* graph.input(): ValueInfoProtos
InputPool ==
  { [name |-> nx, elem_type |-> "FLOAT", dim |-> <<I64(1), I64(3)>>],
    [name |-> na_slash_b, elem_type |-> "INT8", dim |-> <<I64(0), <<5, 0, 1, 0>>>>],
    [name |-> na_dash_b, elem_type |-> "DOUBLE", dim |-> <<I64(-1)>>] }

OpTypes == {"Add", "MatMul", "Gemm", "Frobnicate"}

\* the input and output name lists of a NodeProto
NodeIO ==
  { [input |-> <<nx, nx>>, output |-> <<ny>>],
    [input |-> <<nx, ny, nx>>, output |-> <<na_slash_b>>],
    [input |-> <<ny>>, output |-> <<ny, nx>>],
    [input |-> <<nx, na_dash_b>>, output |-> <<ny, na_dash_b>>],
    [input |-> <<>>, output |-> <<>>] }

NodePool ==
  { [op_type |-> o, input |-> io.input, output |-> io.output] :
      o \in OpTypes, io \in NodeIO }

\* graph.output(): names
OutputNames == {ny, na_dash_b}

\* what an out-of-bounds node.output()[0] may read as a name
GarbageNames == OutputNames

(***************************************************************************)
(* Initial state: a graph with its inputs, nothing imported.               *)
(***************************************************************************)
ImpInit ==
  /\ graph \in {[input |-> ins, node |-> <<>>, output |-> <<>>] :
                  ins \in SeqsUpTo(InputPool, MaxInputs)}
  /\ pc = "ImportInputTensorType"
  /\ it = 0
  /\ arg_types = <<>>
  /\ func_type = NoFunc
  /\ block = <<>>
  /\ onnx_name2onnf_tensor = <<>>
  /\ ret_types = <<>>
  /\ ret_vals = <<>>
  /\ status = "running"

(***************************************************************************)
(* ImportGraph, one action per step.                                       *)
(***************************************************************************)
\* for (input : graph.input()) ImportInputTensorType(input, arg_types);
\* then getFunctionType(arg_types, {}), FuncOp::create, addEntryBlock
ImportInputTensorType ==
  /\ status = "running"
  /\ pc = "ImportInputTensorType"
  /\ IF it < Len(graph.input)
       THEN /\ arg_types' = Append(arg_types, InputTensorType(graph.input[it + 1]))
            /\ it' = it + 1
            /\ UNCHANGED <<pc, func_type>>
       ELSE /\ func_type' = FunctionType(arg_types, <<>>)
            /\ pc' = "ImportInputTensorSymbol"
            /\ it' = 0
            /\ UNCHANGED arg_types
  /\ UNCHANGED <<graph, block, onnx_name2onnf_tensor, ret_types, ret_vals, status>>
  /\ UNCHANGED <<rtVars, cmpVars, evalVars>>

\* for (it : zip(graph.input(), entryBlock.getArguments())) ImportInputTensorSymbol
ImportInputTensorSymbol ==
  /\ status = "running"
  /\ pc = "ImportInputTensorSymbol"
  /\ IF it < Len(graph.input)
       THEN LET input_tensor_legalized_name == legalize_name(graph.input[it + 1].name)
            IN IF ContainKey(onnx_name2onnf_tensor, input_tensor_legalized_name)
                 THEN \* assert(!ContainKey(...)) fails
                      /\ status' = "assert: Found duplicate legalized input tensor names."
                      /\ UNCHANGED <<pc, it, onnx_name2onnf_tensor>>
                 ELSE /\ onnx_name2onnf_tensor' =
                           AddMapping(onnx_name2onnf_tensor,
                                      input_tensor_legalized_name,
                                      BlockArgument(it + 1))
                      /\ it' = it + 1
                      /\ UNCHANGED <<pc, status>>
       ELSE /\ pc' = "ImportNode"
            /\ it' = 0
            /\ UNCHANGED <<onnx_name2onnf_tensor, status>>
  /\ UNCHANGED <<graph, arg_types, func_type, block, ret_types, ret_vals>>
  /\ UNCHANGED <<rtVars, cmpVars, evalVars>>

(***************************************************************************)
(* ImportNode.                                                             *)
(***************************************************************************)
\* the loop over node.input(): the names that resolve, in order
RECURSIVE ResolveInputs(_, _)
ResolveInputs(m, items) ==
  IF items = <<>> THEN <<>>
  ELSE LET item == Head(items)
           rest == ResolveInputs(m, Tail(items))
       IN IF ContainKey(m, legalize_name(item))
            THEN <<GetTensorByOnnxName(m, item)>> \o rest
            ELSE rest

\* inputs[k] of the std::vector, 0-based; past the end the read is indeterminate
InputAt(inputs, k) == IF k < Len(inputs) THEN inputs[k + 1] ELSE Garbage

F32Unranked == UnrankedTensorType("f32")

Operation(name, operands, types) ==
  [name |-> name, operands |-> operands, types |-> types]

IsSpecialized(OpName) == OpName \in {"Add", "MatMul", "Gemm"}

\* the reads of ImportNode that fall outside inputs or node.output()
ReadsOutOfBounds(node, inputs) ==
  \/ node.op_type \in {"Add", "MatMul"} /\ Len(inputs) < 2
  \/ IsSpecialized(node.op_type) /\ Len(node.output) = 0

\* the operation ImportNode creates
BuildOp(node, inputs) ==
  CASE node.op_type = "Add" ->
         Operation(<<"onnx", "Add">>,
                   <<InputAt(inputs, 0), InputAt(inputs, 1)>>, <<F32Unranked>>)
    [] node.op_type = "MatMul" ->
         Operation(<<"onnx", "MatMul">>,
                   <<InputAt(inputs, 0), InputAt(inputs, 1)>>, <<F32Unranked>>)
    [] node.op_type = "Gemm" /\ Len(inputs) = 3 ->
         Operation(<<"onnx", "FullGemm">>,
                   <<inputs[1], inputs[2], inputs[3]>>, <<F32Unranked>>)
    [] node.op_type = "Gemm" /\ Len(inputs) # 3 ->
         Operation(<<"onnx", "Gemm">>, inputs, <<F32Unranked>>)
    [] OTHER ->
         Operation(<<"frontend", node.op_type>>, inputs,
                   [k \in 1..Len(node.output) |-> F32Unranked])

\* a generic path that binds the first declared output only
BindResults_FirstOnly(m, outputs, op, k) ==
  IF outputs = <<>> THEN m
  ELSE emplace(m, legalize_name(outputs[1]), [kind |-> "res", def |-> op, idx |-> 1])

\* the AddMapping calls of the generic path, outputs k..n in order
RECURSIVE BindResults(_, _, _, _)
BindResults(m, outputs, op, k) ==
  IF k > Len(outputs) THEN m
  ELSE BindResults(AddMapping(m, legalize_name(outputs[k]), OpResult(op, k)),
                   outputs, op, k + 1)

\* the AddMapping calls of ImportNode; garbage_name is what node.output()[0]
\* reads when the node declares no output
BindOutputs(m, node, op, garbage_name) ==
  IF IsSpecialized(node.op_type)
    THEN AddMapping(m,
                    legalize_name(IF Len(node.output) > 0 THEN node.output[1]
                                  ELSE garbage_name),
                    OpResult(op, 1))
    ELSE BindResults(m, node.output, op, 1)

\* for (item : graph.node()) ImportNode(item)
ImportNode ==
  /\ status = "running"
  /\ pc = "ImportNode"
  /\ \/ /\ Len(graph.node) < MaxNodes
        /\ \E node \in NodePool :
             LET inputs == ResolveInputs(onnx_name2onnf_tensor, node.input)
                 op == Len(block) + 1
             IN /\ graph' = [graph EXCEPT !.node = Append(@, node)]
                /\ \/ \* GetTensorByOnnxName threw
                      /\ OutOfRange \in Range(inputs)
                      /\ status' = "exception: std::out_of_range"
                      /\ UNCHANGED <<block, onnx_name2onnf_tensor, it>>
                   \/ \* an out-of-bounds read ends the process
                      /\ OutOfRange \notin Range(inputs)
                      /\ ReadsOutOfBounds(node, inputs)
                      /\ status' = "crash: out-of-bounds read"
                      /\ UNCHANGED <<block, onnx_name2onnf_tensor, it>>
                   \/ \* or yields an indeterminate value, and the import goes on
                      /\ OutOfRange \notin Range(inputs)
                      /\ \E garbage_name \in
                              (IF IsSpecialized(node.op_type) /\ Len(node.output) = 0
                                 THEN GarbageNames ELSE {<<>>}) :
                           onnx_name2onnf_tensor' =
                             BindOutputs(onnx_name2onnf_tensor, node, op, garbage_name)
                      /\ block' = Append(block, BuildOp(node, inputs))
                      /\ it' = it + 1
                      /\ UNCHANGED status
        /\ UNCHANGED pc
     \/ \* graph.node() is exhausted
        /\ pc' = "ImportOutputTensor"
        /\ it' = 0
        /\ UNCHANGED <<graph, block, onnx_name2onnf_tensor, status>>
  /\ UNCHANGED <<arg_types, func_type, ret_types, ret_vals>>
  /\ UNCHANGED <<rtVars, cmpVars, evalVars>>

(***************************************************************************)
(* ImportOutputTensor and the end of ImportGraph.                          *)
(***************************************************************************)
\* for (output : graph.output()) ImportOutputTensor(output, ret_types, ret_vals)
ImportOutputTensor ==
  /\ status = "running"
  /\ pc = "ImportOutputTensor"
  /\ Len(graph.output) < MaxOutputs
  /\ \E name \in OutputNames :
       LET output_tensor_legalized_name == legalize_name(name)
       IN /\ graph' = [graph EXCEPT !.output = Append(@, name)]
          /\ IF ~ContainKey(onnx_name2onnf_tensor, output_tensor_legalized_name)
               THEN \* assert(ContainKey(...)) fails
                    /\ status' = "assert: Output tensor not found"
                    /\ UNCHANGED <<it, ret_types, ret_vals>>
               ELSE LET tensor_val ==
                          GetTensorByOnnxName(onnx_name2onnf_tensor,
                                              output_tensor_legalized_name)
                    IN IF tensor_val = OutOfRange
                         THEN /\ status' = "exception: std::out_of_range"
                              /\ UNCHANGED <<it, ret_types, ret_vals>>
                         ELSE /\ ret_types' = Append(ret_types, getType(tensor_val))
                              /\ ret_vals' = Append(ret_vals, tensor_val)
                              /\ it' = it + 1
                              /\ UNCHANGED status
  /\ UNCHANGED <<pc, arg_types, func_type, block, onnx_name2onnf_tensor>>
  /\ UNCHANGED <<rtVars, cmpVars, evalVars>>

\* an end of ImportGraph that emits the return and leaves the signature alone
ImportGraphReturn_NoBackpatch ==
  /\ status = "running"
  /\ pc = "ImportOutputTensor"
  /\ block' = Append(block, Operation(<<"std", "return">>, ret_vals, <<>>))
  /\ status' = "done"
  /\ pc' = "done"
  /\ UNCHANGED <<graph, it, arg_types, func_type, onnx_name2onnf_tensor,
                 ret_types, ret_vals>>
  /\ UNCHANGED <<rtVars, cmpVars, evalVars>>

\* builder_.create<ReturnOp>(ret_vals); main_func.setType(arg_types, ret_types)
ImportGraphReturn ==
  /\ status = "running"
  /\ pc = "ImportOutputTensor"
  /\ block' = Append(block, Operation(<<"std", "return">>, ret_vals, <<>>))
  /\ func_type' = FunctionType(arg_types, ret_types)
  /\ status' = "done"
  /\ pc' = "done"
  /\ UNCHANGED <<graph, it, arg_types, onnx_name2onnf_tensor, ret_types, ret_vals>>
  /\ UNCHANGED <<rtVars, cmpVars, evalVars>>

(***************************************************************************)
(* Properties of the importer.                                             *)
(***************************************************************************)
\* the step consumed a node of graph.node()
NodeStep == Len(graph'.node) = Len(graph.node) + 1

\* no import of a node so far has read out of bounds
NoOutOfBoundsRead ==
  \A k \in 1..Len(block) :
    k <= Len(graph.node)
      => /\ Garbage \notin Range(block[k].operands)
         /\ ~(IsSpecialized(graph.node[k].op_type) /\ graph.node[k].output = <<>>)

\* ... and none of ImportNode's reads for this node falls out of bounds
CleanNodeStep ==
  /\ NodeStep
  /\ NoOutOfBoundsRead
  /\ ~ReadsOutOfBounds(graph'.node[Len(graph'.node)],
                       ResolveInputs(onnx_name2onnf_tensor,
                                     graph'.node[Len(graph'.node)].input))

NewNode == graph'.node[Len(graph'.node)]

\* the output names ImportNode passes to AddMapping, in order
AttemptedOutputs(node) ==
  IF IsSpecialized(node.op_type)
    THEN SubSeq(node.output, 1, IF Len(node.output) > 0 THEN 1 ELSE 0)
    ELSE node.output

\* some AddMapping of the node meets a legalized name that is bound by then
RebindsBoundName(m, node) ==
  LET outs == AttemptedOutputs(node)
  IN \E k \in 1..Len(outs) :
       legalize_name(outs[k]) \in
         DOMAIN m \cup {legalize_name(outs[j]) : j \in 1..(k - 1)}

ReturnEmitted == \E k \in 1..Len(block) : block[k].name = <<"std", "return">>

\* C1: a node output whose legalized name is already bound (by a graph input
\* or by an earlier binding) is rejected as a duplicate-definition error that
\* stops the import, leaving the symbol table as it was.  (Stated for the
\* nodes whose import reads nothing out of bounds.)
C1_DuplicateOutputRejected ==
  [][(CleanNodeStep /\ RebindsBoundName(onnx_name2onnf_tensor, NewNode))
       => /\ status' = "error: duplicate definition"
          /\ onnx_name2onnf_tensor' = onnx_name2onnf_tensor]_vars

\* C2: importing a node one of whose input names is unbound at that moment
\* fails with an unresolved-operand error, and constructs no operation from
\* the shortened operand list.  (Stated for the nodes whose import reads
\* nothing out of bounds.)
C2_UnresolvedOperandFails ==
  [][(CleanNodeStep /\ Len(ResolveInputs(onnx_name2onnf_tensor, NewNode.input))
                    < Len(NewNode.input))
       => /\ status' = "error: unresolved operand"
          /\ block' = block]_vars

\* the legalized names of the graph inputs, and the first input that repeats one
InputLegalName(k) == legalize_name(graph.input[k].name)

RepeatedInputs ==
  {k \in 1..Len(graph.input) : \E j \in 1..(k - 1) : InputLegalName(j) = InputLegalName(k)}

FirstRepeatedInput == CHOOSE k \in RepeatedInputs : \A j \in RepeatedInputs : k <= j

\* C3: a graph output whose legalized name is not in the symbol table stops
\* the import at that output with the "Output tensor not found" assertion: no
\* return is emitted and the function keeps its empty result-type list; an
\* output naming a graph input is accepted with that input's block argument.
C3_UnboundOutputStops ==
  \A k \in 1..Len(graph.output) :
    LET name == legalize_name(graph.output[k])
    IN /\ name \notin DOMAIN onnx_name2onnf_tensor
            => /\ status = "assert: Output tensor not found"
               /\ k = Len(graph.output)
               /\ Len(ret_vals) = k - 1
               /\ ~ReturnEmitted
               /\ func_type.results = <<>>
       /\ \A j \in 1..Len(graph.input) :
            InputLegalName(j) = name
              => /\ Len(ret_vals) >= k
                 /\ ret_vals[k] = BlockArgument(j)
                 /\ ret_types[k] = arg_types[j]

\* C3 witness: the first output names a graph input and is accepted, the
\* second is bound by nothing and stops the import after a node was imported.
C3_Witness ==
  /\ status = "assert: Output tensor not found"
  /\ NoOutOfBoundsRead
  /\ Len(graph.output) = 2
  /\ Len(block) >= 1
  /\ Len(ret_vals) = 1
  /\ ret_vals[1].kind = "arg"

\* C4: right after a node is imported, each declared output name of the node
\* is bound, the k-th (legalized) to the k-th result of the node's operation.
\* (Stated for the nodes whose import reads nothing out of bounds.)
C4_DeclaredOutputsBound ==
  (status = "running" /\ pc = "ImportNode" /\ Len(graph.node) > 0)
    => LET n == Len(graph.node)
           node == graph.node[n]
       IN NoOutOfBoundsRead
          => \A k \in 1..Len(node.output) :
            /\ legalize_name(node.output[k]) \in DOMAIN onnx_name2onnf_tensor
            /\ onnx_name2onnf_tensor[legalize_name(node.output[k])] = OpResult(n, k)

ExpectedArgTypes == [k \in 1..Len(graph.input) |-> InputTensorType(graph.input[k])]

\* C5: on a finished import the block ends with a return whose operands are
\* the values bound to the graph outputs, in order; the function's result
\* types are the types of those values, in order; and its parameter types
\* are, from the function's creation on, those of the graph inputs in order.
C5_ReturnMatchesOutputs ==
  /\ func_type.created => func_type.inputs = ExpectedArgTypes
  /\ status = "done" =>
       LET ret == block[Len(block)]
       IN /\ ret.name = <<"std", "return">>
          /\ \A k \in 1..(Len(block) - 1) : block[k].name # <<"std", "return">>
          /\ Len(ret.operands) = Len(graph.output)
          /\ \A k \in 1..Len(graph.output) :
               ret.operands[k] =
                 onnx_name2onnf_tensor[legalize_name(graph.output[k])]
          /\ Len(func_type.results) = Len(ret.operands)
          /\ \A k \in 1..Len(ret.operands) :
               func_type.results[k] = getType(ret.operands[k])

\* C5 witness: a finished import returning a graph input and a node result,
\* whose types differ.
C5_Witness ==
  /\ status = "done"
  /\ NoOutOfBoundsRead
  /\ Len(graph.output) = 2
  /\ Len(graph.input) = 2
  /\ block[Len(block)].operands[1].kind = "res"
  /\ block[Len(block)].operands[2].kind = "arg"
  /\ func_type.results[1] # func_type.results[2]

\* C6: with two graph inputs of the same legalized name the import never gets
\* past the binding of the second: no node is imported, no operation is
\* constructed, and the only way the import stops is the duplicate-input
\* assertion, raised at the first input that repeats a name.
C6_DuplicateInputsFail ==
  /\ RepeatedInputs # {} =>
       /\ pc \in {"ImportInputTensorType", "ImportInputTensorSymbol"}
       /\ pc = "ImportInputTensorSymbol" => it < FirstRepeatedInput
       /\ graph.node = <<>>
       /\ block = <<>>
       /\ status \in {"running",
                      "assert: Found duplicate legalized input tensor names."}
       /\ status # "running" => it = FirstRepeatedInput - 1
  /\ status = "assert: Found duplicate legalized input tensor names."
       => RepeatedInputs # {}

\* C6 witness: the assertion raised for the inputs "a/b" and "a-b", whose raw
\* names differ.
C6_Witness ==
  /\ status = "assert: Found duplicate legalized input tensor names."
  /\ Len(graph.input) = 2
  /\ graph.input[1].name # graph.input[2].name

\* the operation the step appended to the block
NewOp == block'[Len(block')]

\* C16: for every node with op-code Add or MatMul the operation has exactly
\* two operands, the values bound to the node's first and second input
\* names, and its construction reads no position of the resolved operand
\* list that does not exist, however many of the node's inputs resolved.
\* (Stated for the nodes that declare an output.)
C16_BinaryOpsTakeTwoOperands ==
  [][(NodeStep /\ NewNode.op_type \in {"Add", "MatMul"} /\ NewNode.output # <<>>)
       => LET inputs == ResolveInputs(onnx_name2onnf_tensor, NewNode.input)
          IN /\ Len(inputs) >= 2
             /\ Len(NewNode.input) >= 2
             /\ Len(block') = Len(block) + 1
             /\ NewOp.operands
                  = <<GetTensorByOnnxName(onnx_name2onnf_tensor, NewNode.input[1]),
                      GetTensorByOnnxName(onnx_name2onnf_tensor, NewNode.input[2])>>]_vars

\* C17: for a node with op-code Gemm the three-operand variant is constructed
\* exactly when three operands resolved, the variadic variant only when
\* exactly two resolved, and no Gemm operation is constructed with zero, one
\* or more than three operands.  (Stated for the nodes that declare an
\* output.)
C17_GemmTakesTwoOrThreeOperands ==
  [][(NodeStep /\ NewNode.op_type = "Gemm" /\ NewNode.output # <<>>
        /\ Len(block') = Len(block) + 1)
       => LET inputs == ResolveInputs(onnx_name2onnf_tensor, NewNode.input)
          IN /\ NewOp.name = <<"onnx", "FullGemm">> <=> Len(inputs) = 3
             /\ NewOp.name = <<"onnx", "Gemm">> => Len(inputs) = 2
             /\ Len(NewOp.operands) \in {2, 3}]_vars

\* the int64_t d is positive
I64IsPositive(d) == ~I64IsZero(d) /\ d[4] < Limb \div 2

\* the extent e of a tensor type, as an int64_t, is d
ExtentIs(e, d) ==
  /\ e >= 0
  /\ d = <<e % Limb, e \div Limb, 0, 0>>

\* C21: for every graph input, the parameter type has the rank of the
\* declared shape, and in the declared order the extent of each dimension
\* whose 64-bit value is positive equals that value, also when it does not
\* fit in 32 bits; every non-positive or absent dimension becomes -1.
C21_PositiveDimsKept ==
  \A k \in 1..Len(arg_types) :
    LET dim == graph.input[k].dim
        ty == arg_types[k]
    IN /\ ty.kind = "ranked"
       /\ Len(ty.dims) = Len(dim)
       /\ \A j \in 1..Len(dim) :
            IF I64IsPositive(dim[j]) THEN ExtentIs(ty.dims[j], dim[j])
            ELSE ty.dims[j] = -1

\* v is a formal parameter of the function
IsFormalParameter(v) == v.kind = "arg" /\ v.def \in 1..Len(graph.input)

\* v is a result of an operation constructed before operation k
IsEarlierResult(v, k) ==
  /\ v.kind = "res"
  /\ v.def \in 1..(k - 1)
  /\ v.idx \in 1..Len(block[v.def].types)

\* C22: at every point of the import, each operand of each constructed
\* operation is a formal parameter of the function or a result of an
\* operation constructed strictly earlier; no operation refers to its own
\* result or to that of a later node.
C22_OperandsDefinedEarlier ==
  \A k \in 1..Len(block) :
    \A v \in Range(block[k].operands) :
      IsFormalParameter(v) \/ IsEarlierResult(v, k)

\* the values the input names of a node denote before its import, the
\* unbound names left out
ResolvedOperands(node) ==
  LET bound == SelectSeq(node.input,
                         LAMBDA n : legalize_name(n) \in DOMAIN onnx_name2onnf_tensor)
  IN [k \in 1..Len(bound) |-> onnx_name2onnf_tensor[legalize_name(bound[k])]]

\* C23: the import of a node whose op-code is not Add, MatMul or Gemm
\* constructs exactly one operation, a placeholder tagged with the node's
\* op-code, with one unranked f32 result per declared output and the
\* resolved operands in input order; afterwards every declared output name
\* resolves.
C23_PlaceholderForUnknownOp ==
  [][(NodeStep /\ NewNode.op_type \notin {"Add", "MatMul", "Gemm"})
       => /\ status' = "running"
          /\ Len(block') = Len(block) + 1
          /\ SubSeq(block', 1, Len(block)) = block
          /\ NewOp.name = <<"frontend", NewNode.op_type>>
          /\ NewOp.types = [k \in 1..Len(NewNode.output) |-> UnrankedTensorType("f32")]
          /\ NewOp.operands = ResolvedOperands(NewNode)
          /\ \A k \in 1..Len(NewNode.output) :
               /\ ContainKey(onnx_name2onnf_tensor', legalize_name(NewNode.output[k]))
               /\ GetTensorByOnnxName(onnx_name2onnf_tensor', NewNode.output[k])
                    # OutOfRange]_vars

\* a placeholder for a Frobnicate node with two declared outputs and two
\* inputs, one of them unbound, was constructed as the second operation, and
\* both outputs resolve
C23_Witness ==
  /\ status = "running"
  /\ NoOutOfBoundsRead
  /\ Len(graph.node) = 2
  /\ Len(block) = 2
  /\ graph.node[2].op_type = "Frobnicate"
  /\ Len(graph.node[2].input) = 2
  /\ Len(graph.node[2].output) = 2
  /\ block[2].name = <<"frontend", "Frobnicate">>
  /\ Len(block[2].operands) = 1
  /\ Len(block[2].types) = 2
  /\ \A k \in 1..2 :
       legalize_name(graph.node[2].output[k]) \in DOMAIN onnx_name2onnf_tensor

(***************************************************************************)
(* The OMTensor runtime (OMTensor.inc).                                    *)
(*                                                                         *)
(* A pointer is an integer: NULL, the start of heap block b (Addr(b)), an  *)
(* address inside block b (Interior(b)), or Uninit for a field or array    *)
(* element that was never assigned.                                        *)
(***************************************************************************)
NULL == 0

Uninit == -1

Addr(b) == 2 * b

Interior(b) == 2 * b + 1

BlockOf(p) == p \div 2

IsBlockStart(h, p) == p > 0 /\ p % 2 = 0 /\ BlockOf(p) \in 1..Len(h)

\* malloc(n * sizeof(element)) succeeding: a fresh block, made for descriptor
\* block `for` (0: for the caller)
malloc(h, kind, n, for) ==
  Append(h, [kind |-> kind, n |-> n, live |-> TRUE, for |-> for])

\* free(p): the heaps it may leave, whether the process dies in it, and what
\* went wrong.  Freeing a block again, or a pointer that is no block start,
\* is undefined.
free(h, p) ==
  IF p = NULL THEN {[heap |-> h, crashed |-> FALSE, events |-> {}]}
  ELSE IF IsBlockStart(h, p) /\ h[BlockOf(p)].live
    THEN {[heap |-> [h EXCEPT ![BlockOf(p)].live = FALSE],
           crashed |-> FALSE, events |-> {"freed"}]}
    ELSE {[heap |-> h, crashed |-> c,
           events |-> {IF IsBlockStart(h, p) THEN "double free"
                       ELSE "free of a pointer malloc never returned"}] :
          c \in BOOLEAN}

\* no free at all
NoFree(h) == {[heap |-> h, crashed |-> FALSE, events |-> {}]}

\* struct OMTensor right after malloc(sizeof(OMTensor))
UninitTensor ==
  [_allocatedPtr |-> Uninit, _alignedPtr |-> Uninit, _offset |-> Uninit,
   _shape |-> Uninit, _stride |-> Uninit, _rank |-> Uninit,
   _dataType |-> Uninit, _owning |-> Uninit]

\* the OM_DATA_TYPE enumerators a caller passes (one stands for all: no
\* operation here branches on it)
DTypes == {1}

ShapePool == {<<>>, <<2, 3>>}

\* f extended or overwritten at x
Store(f, x, v) == [y \in DOMAIN f \cup {x} |-> IF y = x THEN v ELSE f[y]]

\* a stride loop that writes 1 everywhere
StrideAt_Unit(shape, k) == 1

\* the stride array the loop of omTensorCreate writes, last index first
RECURSIVE StrideAt(_, _)
StrideAt(shape, k) ==
  IF k = Len(shape) THEN 1 ELSE StrideAt(shape, k + 1) * shape[k + 1]

DenseStrides(shape) == [k \in 1..Len(shape) |-> StrideAt(shape, k)]

\* getNumOfElems(shape, rank): the product of the extents
RECURSIVE getNumOfElems(_, _)
getNumOfElems(shape, rank) ==
  IF rank = 0 THEN 1 ELSE shape[rank] * getNumOfElems(shape, rank - 1)

\* omTensorCreate(data_ptr, shape, rank, dtype) on heap h, structs ts and
\* arrays m.  ok says which of the three mallocs succeed, cont whether the
\* process survives a write through a pointer that is NULL or unassigned.
Create(h, ts, m, data_ptr, shape, rank, dtype, okT, okS, okSt, cont) ==
  IF ~okT
    THEN [heap |-> h, tensors |-> ts, mem |-> m, result |-> NULL,
          events |-> {"OMTensor malloc failed"}, crashed |-> FALSE]
    ELSE
      LET t == Len(h) + 1
          h1 == malloc(h, "OMTensor", 1, t)
          s == Len(h1) + 1
          h2 == IF okS THEN malloc(h1, "shape", rank, t) ELSE h1
          st == Len(h2) + 1
          both == okS /\ okSt
          h3 == IF both THEN malloc(h2, "stride", rank, t) ELSE h2
          \* _stride is assigned only if the first malloc succeeded (&&)
          f0 == [UninitTensor EXCEPT
                   !._shape = IF okS THEN Addr(s) ELSE NULL,
                   !._stride = IF ~okS THEN Uninit
                               ELSE IF okSt THEN Addr(st) ELSE NULL]
          f1 == IF both
                  THEN [f0 EXCEPT !._allocatedPtr = data_ptr,
                                  !._alignedPtr = data_ptr,
                                  !._rank = rank,
                                  !._dataType = dtype,
                                  !._owning = 0]
                  ELSE f0
          \* the loop runs whether or not the arrays exist
          badWrite == rank >= 1 /\ ~both
          m1 == IF okS THEN Store(m, s, shape) ELSE m
          m2 == IF both THEN Store(m1, st, DenseStrides(shape)) ELSE m1
      IN [heap |-> h3, tensors |-> Store(ts, t, f1), mem |-> m2,
          result |-> Addr(t),
          events |-> (IF ~okS THEN {"shape malloc failed"} ELSE {})
                     \cup (IF okS /\ ~okSt THEN {"stride malloc failed"} ELSE {})
                     \cup (IF badWrite THEN {"write through unallocated array"}
                           ELSE {}),
          crashed |-> badWrite /\ ~cont]

\* omTensorCreateWithOwnership: omTensorCreate, then _owning
WithOwnership(R, owning) ==
  IF R.crashed \/ R.result = NULL THEN R
  ELSE [R EXCEPT !.tensors[BlockOf(R.result)]._owning = owning]

\* reading array element k through pointer p
Deref(h, m, p, k) ==
  IF IsBlockStart(h, p) /\ h[BlockOf(p)].live /\ BlockOf(p) \in DOMAIN m
       /\ k \in 1..Len(m[BlockOf(p)])
    THEN m[BlockOf(p)][k]
    ELSE Uninit

\* an omTensorGetNumElems without its assertion
omTensorGetNumElems_NoAssert(h, m, f) ==
  LET shape == [k \in 1..f._rank |-> Deref(h, m, f._shape, k)]
  IN [ub |-> FALSE, dense |-> TRUE, n |-> getNumOfElems(shape, f._rank)]

\* omTensorGetNumElems(tensor): ub when it reads something unassigned, dense
\* as its assertion finds the strides, n the count it returns
omTensorGetNumElems(h, m, f) ==
  IF f._rank = Uninit
    THEN [ub |-> TRUE, dense |-> TRUE, n |-> Uninit]
    ELSE LET shape == [k \in 1..f._rank |-> Deref(h, m, f._shape, k)]
             stride == [k \in 1..f._rank |-> Deref(h, m, f._stride, k)]
         IN IF Uninit \in Range(shape) \cup Range(stride)
              THEN [ub |-> TRUE, dense |-> TRUE, n |-> Uninit]
              ELSE [ub |-> FALSE,
                    dense |-> stride = DenseStrides(shape),
                    n |-> getNumOfElems(shape, f._rank)]

\* omTensorCreateEmpty(shape, rank, dtype)
CreateEmpty(h, ts, m, shape, rank, dtype, okT, okS, okSt, okData, cont) ==
  LET R == WithOwnership(
             Create(h, ts, m, NULL, shape, rank, dtype, okT, okS, okSt, cont), 1)
  IN IF R.crashed \/ R.result = NULL THEN R
     ELSE
       LET t == BlockOf(R.result)
           num == omTensorGetNumElems(R.heap, R.mem, R.tensors[t])
           d == Len(R.heap) + 1
       IN IF num.ub /\ ~cont
            THEN [R EXCEPT !.crashed = TRUE,
                           !.events = @ \cup {"read of unassigned field"}]
          ELSE IF ~num.dense
            THEN [R EXCEPT !.crashed = TRUE,
                           !.events = @ \cup {"assert: strides not dense"}]
          ELSE IF ~okData
            THEN [R EXCEPT !.result = NULL,
                           !.events = @ \cup {"data malloc attempted",
                                              "data malloc failed"}]
          ELSE [R EXCEPT !.heap = malloc(R.heap, "data", num.n, t),
                         !.tensors[t]._alignedPtr = Addr(d),
                         !.tensors[t]._allocatedPtr = Addr(d),
                         !.events = @ \cup {"data malloc attempted"}]

(***************************************************************************)
(* The runtime's API calls as actions.                                     *)
(***************************************************************************)
Call(op, tensor, owning, allocatedPtr, alignedPtr, result, events) ==
  [op |-> op, tensor |-> tensor, owning |-> owning,
   allocatedPtr |-> allocatedPtr, alignedPtr |-> alignedPtr,
   result |-> result, events |-> events]

NoCall == Call("none", NULL, 0, NULL, NULL, NULL, {})

RtInit ==
  /\ heap = <<>>
  /\ tensors = <<>>
  /\ mem = <<>>
  /\ buffers = {}
  /\ handles = {}
  /\ call = NoCall
  /\ rtStatus = "running"

\* what a creation leaves: R is the outcome of Create or CreateEmpty
Created(op, R, owning, data_ptr) ==
  /\ heap' = R.heap
  /\ tensors' = R.tensors
  /\ mem' = R.mem
  /\ rtStatus' = IF R.crashed THEN "crash" ELSE "running"
  /\ handles' = IF R.crashed \/ R.result = NULL THEN handles
                ELSE handles \cup {BlockOf(R.result)}
  /\ call' = Call(op, NULL, owning, data_ptr, NULL,
                  IF R.crashed THEN NULL ELSE R.result, R.events)
  /\ UNCHANGED buffers

CanCreate ==
  /\ rtStatus = "running"
  /\ Cardinality({b \in 1..Len(heap) : heap[b].kind = "OMTensor"}) < MaxTensors

DataPtrs == {NULL} \cup {Addr(b) : b \in buffers}

\* the shape arrays the caller holds in memory of its own
CallerShapes == {b \in 1..Len(heap) : heap[b].kind = "caller shape"}

\* the shapes a caller passes to a creation: what its arrays hold, if it
\* holds any
ShapeArgs ==
  IF CallerShapes = {} THEN ShapePool ELSE {mem[b] : b \in CallerShapes}

\* the caller allocates a data buffer of its own (all of them before it
\* creates its first descriptor: block numbers are names, their order is not
\* behaviour)
CallerMalloc ==
  /\ rtStatus = "running"
  /\ Cardinality(buffers) < MaxBuffers
  /\ \A b \in 1..Len(heap) : b \in buffers
  /\ heap' = malloc(heap, "data", 1, 0)
  /\ buffers' = buffers \cup {Len(heap) + 1}
  /\ call' = Call("malloc", NULL, 0, NULL, NULL, Addr(Len(heap) + 1), {})
  /\ UNCHANGED <<tensors, mem, handles, rtStatus>>
  /\ UNCHANGED <<impVars, cmpVars, evalVars>>

omTensorCreate ==
  /\ CanCreate
  /\ \E data_ptr \in DataPtrs, shape \in ShapeArgs, dtype \in DTypes,
        okT, okS, okSt, cont \in BOOLEAN :
       Created("omTensorCreate",
               Create(heap, tensors, mem, data_ptr, shape, Len(shape), dtype,
                      okT, okS, okSt, cont),
               0, data_ptr)
  /\ UNCHANGED <<impVars, cmpVars, evalVars>>

omTensorCreateWithOwnership ==
  /\ CanCreate
  /\ \E data_ptr \in DataPtrs, shape \in ShapeArgs, dtype \in DTypes,
        owning \in {0, 1}, okT, okS, okSt, cont \in BOOLEAN :
       Created("omTensorCreateWithOwnership",
               WithOwnership(
                 Create(heap, tensors, mem, data_ptr, shape, Len(shape), dtype,
                        okT, okS, okSt, cont),
                 owning),
               owning, data_ptr)
  /\ UNCHANGED <<impVars, cmpVars, evalVars>>

omTensorCreateEmpty ==
  /\ CanCreate
  /\ \E shape \in ShapeArgs, dtype \in DTypes,
        okT, okS, okSt, okData, cont \in BOOLEAN :
       Created("omTensorCreateEmpty",
               CreateEmpty(heap, tensors, mem, shape, Len(shape), dtype,
                           okT, okS, okSt, okData, cont),
               1, NULL)
  /\ UNCHANGED <<impVars, cmpVars, evalVars>>

\* the values a read of an int field may give
ReadInt(v, garbage) == IF v = Uninit THEN garbage ELSE {v}

\* omTensorDestroy(tensor)
omTensorDestroy ==
  /\ rtStatus = "running"
  /\ \E t \in handles :
       LET f == tensors[t]
       IN \E owning \in ReadInt(f._owning, {0, 1}) :
               \E o \in (IF owning # 0 THEN free(heap, f._allocatedPtr)
                         ELSE NoFree(heap)) :
                 /\ IF o.crashed
                      THEN /\ heap' = o.heap
                           /\ rtStatus' = "crash"
                           /\ UNCHANGED <<tensors, handles>>
                      ELSE /\ heap' = [o.heap EXCEPT ![t].live = FALSE]
                           /\ tensors' = [x \in DOMAIN tensors \ {t} |-> tensors[x]]
                           /\ handles' = handles \ {t}
                           /\ UNCHANGED rtStatus
                 /\ call' = Call("omTensorDestroy", t, 0, NULL, NULL, NULL,
                                 o.events)
  /\ UNCHANGED <<mem, buffers>>
  /\ UNCHANGED <<impVars, cmpVars, evalVars>>

\* the pointers a caller may hand to omTensorSetPtr for descriptor t
PtrArgs(t) ==
  DataPtrs \cup ({tensors[t]._allocatedPtr} \ {Uninit})

\* an omTensorSetPtr that installs alignedPtr as it comes
InstalledAligned_AsGiven(allocatedPtr, alignedPtr) == alignedPtr

\* the aligned pointer omTensorSetPtr installs
InstalledAligned(allocatedPtr, alignedPtr) ==
  IF alignedPtr # NULL THEN alignedPtr ELSE allocatedPtr

\* omTensorSetPtr(tensor, owning, allocatedPtr, alignedPtr)
omTensorSetPtr ==
  /\ rtStatus = "running"
  /\ \E t \in handles :
       LET f == tensors[t]
       IN \E owning \in {0, 1}, allocatedPtr \in PtrArgs(t) :
               \E alignedPtr \in {NULL} \cup (IF allocatedPtr = NULL THEN {}
                                                ELSE {allocatedPtr + 1}) :
                 \E was_owning \in ReadInt(f._owning, {0, 1}) :
                   \E o \in (IF was_owning # 0 THEN free(heap, f._allocatedPtr)
                             ELSE NoFree(heap)) :
                     /\ heap' = o.heap
                     /\ IF o.crashed
                          THEN /\ rtStatus' = "crash"
                               /\ UNCHANGED tensors
                          ELSE /\ tensors' =
                                    [tensors EXCEPT
                                       ![t]._owning = owning,
                                       ![t]._allocatedPtr = allocatedPtr,
                                       ![t]._alignedPtr =
                                          InstalledAligned(allocatedPtr, alignedPtr)]
                               /\ UNCHANGED rtStatus
                     /\ call' = Call("omTensorSetPtr", t, owning, allocatedPtr,
                                     alignedPtr, NULL, o.events)
  /\ UNCHANGED <<mem, buffers, handles>>
  /\ UNCHANGED <<impVars, cmpVars, evalVars>>

(***************************************************************************)
(* Properties of the tensor runtime.                                       *)
(***************************************************************************)
CreateOps == {"omTensorCreate", "omTensorCreateWithOwnership", "omTensorCreateEmpty"}

LiveBlock(h, p) == IsBlockStart(h, p) /\ h[BlockOf(p)].live

\* the descriptor came out of a creation whose allocations all succeeded
WellFormed(h, f) ==
  /\ LiveBlock(h, f._shape)
  /\ LiveBlock(h, f._stride)
  /\ f._owning \in {0, 1}
  /\ f._allocatedPtr = NULL \/ LiveBlock(h, f._allocatedPtr)

\* C7: omTensorDestroy on a descriptor a creation produced releases the data
\* buffer iff the owning flag is set, and always releases the shape and
\* stride arrays: no allocation made for the descriptor stays live.
C7_DestroyReleasesAll ==
  [][(call'.op = "omTensorDestroy" /\ WellFormed(heap, tensors[call'.tensor]))
       => LET t == call'.tensor
              f == tensors[t]
          IN /\ rtStatus' = "running"
             /\ ~heap'[t].live
             /\ LiveBlock(heap, f._allocatedPtr)
                  => (heap'[BlockOf(f._allocatedPtr)].live <=> f._owning = 0)
             /\ ~LiveBlock(heap', f._shape)
             /\ ~LiveBlock(heap', f._stride)
             /\ \A b \in 1..Len(heap') :
                  (heap'[b].for = t /\ heap'[b].kind # "data") => ~heap'[b].live]_vars

\* C8: when the allocation of the shape array or of the stride array fails,
\* each of the three creations returns NULL, having written through no
\* unallocated array and attempted no data buffer allocation.
C8_ArrayAllocFailureReturnsNull ==
  (call.op \in CreateOps
     /\ call.events \cap {"shape malloc failed", "stride malloc failed"} # {})
    => /\ rtStatus = "running"
       /\ call.result = NULL
       /\ "write through unallocated array" \notin call.events
       /\ "data malloc attempted" \notin call.events

\* C9: omTensorSetPtr on a descriptor that owns its buffer releases that
\* buffer, once, and on a descriptor that does not own it releases nothing;
\* afterwards _owning is the owning argument, _allocatedPtr the allocatedPtr
\* argument, and _alignedPtr is alignedPtr, or allocatedPtr when alignedPtr is
\* NULL.  (For descriptors whose flag is assigned and whose owned pointer is
\* NULL or a live block, the cases in which free is defined.)
C9_SetPtrReleasesAndInstalls ==
  [][(call'.op = "omTensorSetPtr"
        /\ tensors[call'.tensor]._owning \in {0, 1}
        /\ (tensors[call'.tensor]._owning = 1
              => \/ tensors[call'.tensor]._allocatedPtr = NULL
                 \/ LiveBlock(heap, tensors[call'.tensor]._allocatedPtr)))
       => LET t == call'.tensor
              f == tensors[t]
              g == tensors'[t]
          IN /\ rtStatus' = "running"
             /\ heap' = IF f._owning = 1 /\ f._allocatedPtr # NULL
                          THEN [heap EXCEPT ![BlockOf(f._allocatedPtr)].live = FALSE]
                          ELSE heap
             /\ call'.events \subseteq {"freed"}
             /\ g._owning = call'.owning
             /\ g._allocatedPtr = call'.allocatedPtr
             /\ g._alignedPtr = IF call'.alignedPtr = NULL THEN call'.allocatedPtr
                                ELSE call'.alignedPtr
             /\ \A x \in DOMAIN tensors \ {t} : tensors'[x] = tensors[x]]_vars

\* an owning descriptor was repointed with alignedPtr NULL, and its buffer freed
C9_Witness ==
  /\ call.op = "omTensorSetPtr"
  /\ rtStatus = "running"
  /\ call.events = {"freed"}
  /\ call.alignedPtr = NULL
  /\ call.allocatedPtr # NULL
  /\ call.tensor \in handles
  /\ tensors[call.tensor]._alignedPtr = call.allocatedPtr
  /\ tensors[call.tensor]._owning = 1

\* C15: across the creations and omTensorSetPtr calls, with at most one
\* omTensorDestroy per descriptor, no data buffer is released more than once
\* and no descriptor holds as owned a buffer that has been released.
\* (Stated for the descriptors whose shape and stride arrays were allocated.)
C15_NoBufferReleasedTwice ==
  /\ "double free" \notin call.events
  /\ \A t \in handles :
       (/\ LiveBlock(heap, tensors[t]._shape)
        /\ LiveBlock(heap, tensors[t]._stride)
        /\ tensors[t]._owning = 1
        /\ IsBlockStart(heap, tensors[t]._allocatedPtr))
         => heap[BlockOf(tensors[t]._allocatedPtr)].live

\* C25: when the data buffer malloc of omTensorCreateEmpty fails, the call
\* returns NULL and has released every allocation it made, the descriptor
\* and its shape and stride arrays: the live blocks are those of the caller
\* and of the descriptors it holds.
C25_FailedCreateEmptyLeavesNothing ==
  (call.op = "omTensorCreateEmpty" /\ "data malloc failed" \in call.events)
    => /\ call.result = NULL
       /\ \A b \in 1..Len(heap) :
            heap[b].live => (b \in buffers \/ heap[b].for \in handles)

(***************************************************************************)
(* omTensorAreTwoOmtsClose<T> for an integer T.  rtol and atol are floats; *)
(* the model takes them in halves, rtol = rtol2 / 2 and atol = atol2 / 2,  *)
(* so that x < atol is 2 * x < atol2.                                      *)
(***************************************************************************)
Elems == (0 - MaxElem)..MaxElem

Tol2 == 0..MaxTol2

CmpShapes == {<<1>>, <<2>>, <<1, 2>>}

\* the strides a compared descriptor may carry: those creation gave it, or
\* all zero after omTensorSetStrides (every index then addresses element 0)
CmpStrides(sh) == {DenseStrides(sh), [d \in 1..Len(sh) |-> 0]}

\* the tensors handed to the comparison: a descriptor and its elements
CmpTensors ==
  UNION {[shape : {sh}, stride : CmpStrides(sh),
          data : [1..getNumOfElems(sh, Len(sh)) -> Elems]] :
         sh \in CmpShapes}

abs(x) == IF x < 0 THEN 0 - x ELSE x

\* std::divides on T: the quotient, truncated toward zero (y # 0)
divides(x, y) ==
  IF (x >= 0) = (y > 0) THEN abs(x) \div abs(y) ELSE 0 - (abs(x) \div abs(y))

\* [&](T a) { return a < tol; } with tol = tol2 / 2
LessThanTol(x, tol2) == 2 * x < tol2

\* what the call does past the shape check: omTensorGetNumElems(a) with its
\* assertion on a's strides, absoluteDiff, relativeDiff, and the two all_of
\* over the first anum elements of each buffer.  A zero element of a makes
\* the division undefined.
CloseVerdict(a, b, rtol2, atol2) ==
  LET anum == getNumOfElems(a.shape, Len(a.shape))
      absoluteDiff == [i \in 1..anum |-> abs(a.data[i] - b.data[i])]
      atolSatisfied == \A i \in 1..anum : LessThanTol(absoluteDiff[i], atol2)
      undefined == \E i \in 1..anum : a.data[i] = 0
      relativeDiff == [i \in 1..anum |-> divides(absoluteDiff[i], a.data[i])]
      rtolSatisfied == \A i \in 1..anum : LessThanTol(relativeDiff[i], rtol2)
  IN IF a.stride # DenseStrides(a.shape)
       THEN {[pc |-> "assertion failed", result |-> FALSE]}
       ELSE IF undefined
         THEN {[pc |-> "crashed", result |-> FALSE]}
              \cup {[pc |-> "returned", result |-> r] : r \in BOOLEAN}
         ELSE {[pc |-> "returned", result |-> atolSatisfied /\ rtolSatisfied]}

\* an iota that counts from 1
iota_FromOne(n) == [k \in 1..n |-> k]

\* iota(begin, end, 0) on a vector of n entries
iota(n) == [k \in 1..n |-> k - 1]

\* CartProduct(dimWiseIdxSet): the tuples with one entry from each vector, the
\* last vector running fastest
RECURSIVE CartProduct(_)
CartProduct(dimWiseIdxSet) ==
  IF dimWiseIdxSet = <<>> THEN <<<<>>>>
  ELSE LET head == Head(dimWiseIdxSet)
           rest == CartProduct(Tail(dimWiseIdxSet))
       IN [k \in 1..(Len(head) * Len(rest)) |->
             <<head[((k - 1) \div Len(rest)) + 1]>> \o rest[((k - 1) % Len(rest)) + 1]]

\* omTensorComputeIndexSet(omt), from the descriptor's shape
omTensorComputeIndexSet(shape) ==
  CartProduct([d \in 1..Len(shape) |-> iota(shape[d])])

\* computeElemOffset(stride, rank, indexes): the dot product
RECURSIVE computeElemOffset(_, _, _)
computeElemOffset(stride, rank, indexes) ==
  IF rank = 0 THEN 0
  ELSE indexes[rank] * stride[rank] + computeElemOffset(stride, rank - 1, indexes)

\* omTensorGetElem<T>(omt, idx) on a compared tensor: the element behind
\* _allocatedPtr at the offset its strides give
CmpElem(t, idx) ==
  t.data[computeElemOffset(t.stride, Len(t.shape), idx) + 1]

\* the test of the diagnostic loop: !withinRtol || !withinAtol
ViolatesTolerances(aElem, bElem, rtol2, atol2) ==
  LET elmAbsDiff == abs(aElem - bElem)
  IN \/ ~LessThanTol(divides(elmAbsDiff, aElem), rtol2)
     \/ ~LessThanTol(elmAbsDiff, atol2)

\* the multi-indices the diagnostic loop prints, in its order
Diagnostic(a, b, rtol2, atol2) ==
  SelectSeq(omTensorComputeIndexSet(a.shape),
            LAMBDA idx : ViolatesTolerances(CmpElem(a, idx), CmpElem(b, idx),
                                            rtol2, atol2))

\* what the call prints after verdict v; with a zero element in a its
\* divisions are undefined, and so is what it prints
Reported(a, b, rtol2, atol2, v) ==
  IF v.pc # "returned" \/ v.result THEN {<<>>}
  ELSE IF 0 \in Range(a.data)
    THEN {<<>>, omTensorComputeIndexSet(a.shape)}
    ELSE {Diagnostic(a, b, rtol2, atol2)}

CmpInit ==
  \E a \in CmpTensors, b \in CmpTensors, rtol2 \in Tol2, atol2 \in Tol2 :
    cmp = [a |-> a, b |-> b, rtol2 |-> rtol2, atol2 |-> atol2,
           pc |-> "call", result |-> FALSE, events |-> {}, reported |-> <<>>]

CmpIdle ==
  cmp = [a |-> [shape |-> <<>>, stride |-> <<>>, data |-> <<>>],
         b |-> [shape |-> <<>>, stride |-> <<>>, data |-> <<>>],
         rtol2 |-> 0, atol2 |-> 0, pc |-> "idle", result |-> FALSE, events |-> {},
         reported |-> <<>>]

\* what the call does once the shapes agreed
PastShapeCheck ==
  {"omTensorGetNumElems asserted", "elements read", "tolerances tested"}

\* a comparison that does all of it before it looks at the shapes
omTensorAreTwoOmtsClose_ShapeCheckLast ==
  /\ cmp.pc = "call"
  /\ IF cmp.a.shape # cmp.b.shape
       THEN cmp' = [cmp EXCEPT !.pc = "returned", !.result = FALSE,
                               !.events = PastShapeCheck \cup {"Shape mismatch"}]
       ELSE \E v \in CloseVerdict(cmp.a, cmp.b, cmp.rtol2, cmp.atol2) :
              cmp' = [cmp EXCEPT !.pc = v.pc, !.result = v.result,
                                 !.events = PastShapeCheck]
  /\ UNCHANGED <<impVars, rtVars, evalVars>>

\* omTensorAreTwoOmtsClose(a, b, rtol, atol)
omTensorAreTwoOmtsClose ==
  /\ cmp.pc = "call"
  /\ IF cmp.a.shape # cmp.b.shape
       THEN cmp' = [cmp EXCEPT !.pc = "returned", !.result = FALSE,
                               !.events = {"Shape mismatch"}]
       ELSE \E v \in CloseVerdict(cmp.a, cmp.b, cmp.rtol2, cmp.atol2) :
              \E printed \in Reported(cmp.a, cmp.b, cmp.rtol2, cmp.atol2, v) :
                cmp' = [cmp EXCEPT !.pc = v.pc, !.result = v.result,
                                   !.events = IF v.pc = "assertion failed"
                                                THEN {"omTensorGetNumElems asserted"}
                                                ELSE PastShapeCheck,
                                   !.reported = printed]
  /\ UNCHANGED <<impVars, rtVars, evalVars>>

\* every element pair is within atol, or within rtol of a's element
CloseAsSpecified(a, b, rtol2, atol2) ==
  \A i \in 1..Len(a.data) :
    \/ 2 * abs(a.data[i] - b.data[i]) <= atol2
    \/ 2 * abs(a.data[i] - b.data[i]) <= rtol2 * abs(a.data[i])

\* C10: for two descriptors of equal shape the call returns true exactly when
\* every element pair satisfies |a_i - b_i| <= atol or
\* |a_i - b_i| <= rtol * |a_i|.  (Stated for dense descriptors, and for
\* tensors a without a zero element, for which the call's division is
\* defined.)
C10_CloseIsAtolOrRtol ==
  (/\ cmp.pc # "call" /\ cmp.a.shape = cmp.b.shape /\ 0 \notin Range(cmp.a.data)
   /\ cmp.a.stride = DenseStrides(cmp.a.shape)
   /\ cmp.b.stride = DenseStrides(cmp.b.shape))
    => /\ cmp.pc = "returned"
       /\ cmp.result <=> CloseAsSpecified(cmp.a, cmp.b, cmp.rtol2, cmp.atol2)

\* C13: when the shapes of a and b differ, in rank or in an extent, the call
\* returns false as a shape mismatch, having read no element of either
\* buffer, evaluated no contiguity assertion and tested no tolerance.
C13_ShapeMismatchReadsNothing ==
  (cmp.pc # "call" /\ cmp.a.shape # cmp.b.shape)
    => /\ cmp.pc = "returned"
       /\ cmp.result = FALSE
       /\ cmp.events = {"Shape mismatch"}

\* a comparison of shapes [2] and [1, 2] has returned: a rank mismatch
\* between tensors that would pass every tolerance test
C13_Witness ==
  /\ cmp.pc = "returned"
  /\ cmp.a.shape = <<2>>
  /\ cmp.b.shape = <<1, 2>>
  /\ cmp.a.data = cmp.b.data
  /\ 0 \notin Range(cmp.a.data)
  /\ cmp.rtol2 > 0
  /\ cmp.atol2 > 0

\* the position of a multi-index in row-major order, 0-based
RECURSIVE RowMajor(_, _, _)
RowMajor(shape, idx, k) ==
  IF k = 0 THEN 0 ELSE RowMajor(shape, idx, k - 1) * shape[k] + idx[k]

\* C18: past the shape check, the call returns false iff its diagnostic
\* reports at least one multi-index, and the multi-indices it reports are
\* exactly the elements that fail the rule of the verdict, |a_i - b_i| < atol
\* and |a_i - b_i| / a_i < rtol.  (Stated for tensors a without a zero
\* element, for which the divisions are defined.)
C18_VerdictMatchesDiagnostic ==
  (cmp.pc = "returned" /\ cmp.a.shape = cmp.b.shape /\ 0 \notin Range(cmp.a.data))
    => /\ cmp.result = FALSE <=> cmp.reported # <<>>
       /\ \A j, k \in 1..Len(cmp.reported) :
            cmp.reported[j] = cmp.reported[k] => j = k
       /\ Range(cmp.reported) =
            {idx \in [1..Len(cmp.a.shape) -> 0..MaxElem] :
               /\ \A d \in 1..Len(cmp.a.shape) : idx[d] < cmp.a.shape[d]
               /\ LET i == RowMajor(cmp.a.shape, idx, Len(cmp.a.shape)) + 1
                      d == abs(cmp.a.data[i] - cmp.b.data[i])
                  IN ~(/\ LessThanTol(d, cmp.atol2)
                       /\ LessThanTol(divides(d, cmp.a.data[i]), cmp.rtol2))}

(***************************************************************************)
(* Shape and stride setters, and omTensorGetNumElems as a call, on one     *)
(* descriptor that omTensorCreate returned with all its mallocs succeeding. *)
(***************************************************************************)
ShapeStarts == {<<2>>, <<2, 3>>, <<2, 3, 0>>}

Extents == 0..MaxExtent

\* the array the caller passes to a setter of a rank-r descriptor
ArrayArgs(r) == [1..r -> Extents]

\* the descriptor's arrays as they stand
ShapeOf(h, m, f) == [k \in 1..f._rank |-> Deref(h, m, f._shape, k)]

StridesOf(h, m, f) == [k \in 1..f._rank |-> Deref(h, m, f._stride, k)]

ShapeInit ==
  \E shape \in ShapeStarts, dtype \in DTypes :
    LET R == Create(<<>>, <<>>, <<>>, NULL, shape, Len(shape), dtype,
                    TRUE, TRUE, TRUE, TRUE)
    IN /\ heap = R.heap
       /\ tensors = R.tensors
       /\ mem = R.mem
       /\ buffers = {}
       /\ handles = {BlockOf(R.result)}
       /\ call = Call("omTensorCreate", NULL, 0, NULL, NULL, R.result, R.events)
       /\ rtStatus = "running"

\* for (i < _rank) tensor->_shape[i] = shape[i], or the same on _stride:
\* a write through a pointer that is no live array is undefined
SetArray(op, t, p, array) ==
  /\ IF LiveBlock(heap, p)
       THEN /\ mem' = [mem EXCEPT ![BlockOf(p)] = array]
            /\ UNCHANGED rtStatus
       ELSE /\ rtStatus' \in {"running", "crash"}
            /\ UNCHANGED mem
  /\ call' = Call(op, t, 0, NULL, NULL, NULL, {})
  /\ UNCHANGED <<heap, tensors, buffers, handles>>

\* omTensorSetShape(tensor, shape)
omTensorSetShape ==
  /\ rtStatus = "running"
  /\ \E t \in handles :
       /\ tensors[t]._rank # Uninit
       /\ \E shape \in ArrayArgs(tensors[t]._rank) :
            SetArray("omTensorSetShape", t, tensors[t]._shape, shape)
  /\ UNCHANGED <<impVars, cmpVars, evalVars>>

\* omTensorSetStrides(tensor, strides)
omTensorSetStrides ==
  /\ rtStatus = "running"
  /\ \E t \in handles :
       /\ tensors[t]._rank # Uninit
       /\ \E strides \in ArrayArgs(tensors[t]._rank) :
            SetArray("omTensorSetStrides", t, tensors[t]._stride, strides)
  /\ UNCHANGED <<impVars, cmpVars, evalVars>>

\* a caller's omTensorGetNumElems(tensor): the count, or the assertion
GetNumElemsCall ==
  /\ rtStatus = "running"
  /\ \E t \in handles :
       LET num == omTensorGetNumElems(heap, mem, tensors[t])
       IN /\ rtStatus' = IF num.ub THEN "crash"
                         ELSE IF ~num.dense THEN "assert: strides not dense"
                         ELSE "running"
          /\ call' = Call("omTensorGetNumElems", t, 0, NULL, NULL,
                          IF num.ub \/ ~num.dense THEN NULL ELSE num.n, {})
  /\ UNCHANGED <<heap, tensors, mem, buffers, handles>>
  /\ UNCHANGED <<impVars, cmpVars, evalVars>>

\* the strides the descriptor stores are the dense strides of its shape
Dense(h, m, f) == StridesOf(h, m, f) = DenseStrides(ShapeOf(h, m, f))

\* the positions at which two arrays of one length differ
Changed(old, new) == {k \in 1..Len(old) : old[k] # new[k]}

Last(S) == CHOOSE k \in S : \A j \in S : j <= k

\* an omTensorGetNumElems step returns the product of the extents of a
\* dense descriptor and fails the assertion on any other
CountsOrAsserts ==
  call'.op = "omTensorGetNumElems"
    => LET f == tensors[call'.tensor]
       IN IF Dense(heap, mem, f)
            THEN /\ rtStatus' = "running"
                 /\ call'.result = getNumOfElems(ShapeOf(heap, mem, f), f._rank)
            ELSE rtStatus' = "assert: strides not dense"

\* C11 as stated: after any omTensorSetShape / omTensorSetStrides calls,
\* omTensorGetNumElems returns the product of the extents if the strides are
\* the dense strides of the shape and fails the assertion otherwise; and an
\* omTensorSetShape on a dense descriptor that changes a non-leading extent
\* leaves a descriptor on which the next omTensorGetNumElems fails.
C11_Original ==
  [][/\ CountsOrAsserts
     /\ (call'.op = "omTensorSetShape"
           /\ Dense(heap, mem, tensors[call'.tensor])
           /\ \E k \in Changed(ShapeOf(heap, mem, tensors[call'.tensor]),
                               ShapeOf(heap', mem', tensors[call'.tensor])) : k > 1)
          => ~Dense(heap', mem', tensors[call'.tensor])]_vars

\* C11, amended: the same, where the omTensorSetShape changes a non-leading
\* extent and every extent to the right of the last changed one is nonzero
\* (a zero extent further right makes every stride to its left 0 before and
\* after the change, and the count, 0, is returned).
C11_NumElemsCountsDenseOnly ==
  [][/\ CountsOrAsserts
     /\ (call'.op = "omTensorSetShape"
           /\ Dense(heap, mem, tensors[call'.tensor])
           /\ LET old == ShapeOf(heap, mem, tensors[call'.tensor])
                  new == ShapeOf(heap', mem', tensors[call'.tensor])
              IN /\ Changed(old, new) # {}
                 /\ Last(Changed(old, new)) > 1
                 /\ \A j \in (Last(Changed(old, new)) + 1)..Len(new) : new[j] # 0)
          => ~Dense(heap', mem', tensors[call'.tensor])]_vars

\* omTensorGetNumElems failed on a descriptor whose strides are the dense
\* strides of a shape that differs from its own in a non-leading extent
C11_Witness ==
  /\ call.op = "omTensorGetNumElems"
  /\ rtStatus = "assert: strides not dense"
  /\ LET f == tensors[call.tensor]
     IN \E old \in ArrayArgs(f._rank) :
          /\ StridesOf(heap, mem, f) = DenseStrides(old)
          /\ \E k \in Changed(old, ShapeOf(heap, mem, f)) : k > 1

(***************************************************************************)
(* One creation from a shape array the caller holds.                       *)
(***************************************************************************)
CreateShapes == SeqsUpTo(Extents, MaxRank)

CreateInit ==
  \E shape \in CreateShapes :
    /\ heap = malloc(<<>>, "caller shape", Len(shape), 0)
    /\ mem = Store(<<>>, 1, shape)
    /\ tensors = <<>>
    /\ buffers = {}
    /\ handles = {}
    /\ call = NoCall
    /\ rtStatus = "running"

\* the shape the creation was given
GivenShape == mem[CHOOSE b \in CallerShapes : TRUE]

\* C12: for every shape of rank r >= 1 with all extents > 0, the descriptor a
\* creation returns has the given shape, stride[r-1] = 1 and
\* stride[i] = stride[i+1] * shape[i+1] for 0 <= i < r-1.  (For the creations
\* whose shape and stride mallocs succeeded.)
C12_FreshDescriptorIsDense ==
  \A t \in handles :
    LET f == tensors[t]
        r == Len(GivenShape)
    IN (/\ r >= 1
        /\ \A k \in 1..r : GivenShape[k] > 0
        /\ LiveBlock(heap, f._shape)
        /\ LiveBlock(heap, f._stride))
         => /\ f._rank = r
            /\ ShapeOf(heap, mem, f) = GivenShape
            /\ StridesOf(heap, mem, f)[r] = 1
            /\ \A i \in 1..(r - 1) :
                 StridesOf(heap, mem, f)[i]
                   = StridesOf(heap, mem, f)[i + 1] * GivenShape[i + 1]

\* a creation returned a descriptor for a shape of rank 3 with extents > 1
C12_Witness ==
  /\ call.op \in CreateOps
  /\ Len(GivenShape) = 3
  /\ \A k \in 1..3 : GivenShape[k] > 1
  /\ \E t \in handles :
       /\ call.result = Addr(t)
       /\ LiveBlock(heap, tensors[t]._shape)
       /\ LiveBlock(heap, tensors[t]._stride)
       /\ StridesOf(heap, mem, tensors[t])[1] = GivenShape[2] * GivenShape[3]

(***************************************************************************)
(* legalize_name called on its own, on every name over a small alphabet.   *)
(***************************************************************************)
NameChars == {"/", "-", ":", "7", "a", "_"}

Names == SeqsUpTo(NameChars, MaxLen)

Eval(op, args, result) == [op |-> op, args |-> args, result |-> result]

EvalIdle == eval = Eval("none", <<>>, <<>>)

LegalizeInit == \E name \in Names : eval = Eval("call legalize_name", <<name>>, <<>>)

\* legalize_name(name)
LegalizeCall ==
  /\ eval.op = "call legalize_name"
  /\ eval' = Eval("legalize_name", eval.args, legalize_name(eval.args[1]))
  /\ UNCHANGED <<impVars, rtVars, cmpVars>>

\* C14: for every string s, legalize_name(s) contains no '/', '-' or ':' and
\* does not start with a digit, and legalize_name(legalize_name(s)) =
\* legalize_name(s).
C14_LegalizeIsIdempotent ==
  eval.op = "legalize_name"
    => /\ Range(eval.result) \cap {"/", "-", ":"} = {}
       /\ eval.result # <<>> => eval.result[1] \notin Digits
       /\ legalize_name(eval.result) = eval.result

\* a name that starts with a digit and holds a ':' and a '/' was legalized
C14_Witness ==
  /\ eval.op = "legalize_name"
  /\ eval.args[1] = <<"7", ":", "/">>
  /\ eval.result = <<"n", "7">> \o colon_ \o <<"_">>

(***************************************************************************)
(* The element accessors, called on the descriptors of a caller that       *)
(* creates them over its own buffers and repoints them.  An accessor       *)
(* returns a reference: the model records the pointer it indexes and the   *)
(* offset.                                                                 *)
(***************************************************************************)
\* omTensorGetDataPtr(tensor)
omTensorGetDataPtr(f) == f._alignedPtr

\* omTensorComputeElemOffset(omt, indexes); Uninit when it reads an
\* unassigned _rank or _stride entry
omTensorComputeElemOffset(h, m, f, indexes) ==
  IF f._rank = Uninit \/ Uninit \in Range(StridesOf(h, m, f))
       \/ Len(indexes) < f._rank
    THEN Uninit
    ELSE computeElemOffset(StridesOf(h, m, f), f._rank, indexes)

\* the index vectors a caller passes for descriptor f: the all-zero one and
\* those of its index set
IndexArgs(h, m, f) ==
  IF f._rank = Uninit THEN {<<>>}
  ELSE {[d \in 1..f._rank |-> 0]}
         \cup Range(omTensorComputeIndexSet(ShapeOf(h, m, f)))

AccessorOps == {"omTensorGetElem", "omTensorGetElemByOffset"}

\* the call omTensorGetDataPtr(tensor)
GetDataPtrCall ==
  /\ rtStatus = "running"
  /\ \E t \in handles :
       \E p \in ReadInt(omTensorGetDataPtr(tensors[t]), DataPtrs) :
         eval' = Eval("omTensorGetDataPtr", <<t>>, <<p>>)
  /\ UNCHANGED rtVars
  /\ UNCHANGED <<impVars, cmpVars>>

\* omTensorGetElem<T>(omt, indexes): ((T *)omt->_allocatedPtr)[elemOffset]
omTensorGetElem ==
  /\ rtStatus = "running"
  /\ \E t \in handles :
       LET f == tensors[t]
       IN \E indexes \in IndexArgs(heap, mem, f) :
            LET elemOffset == omTensorComputeElemOffset(heap, mem, f, indexes)
            IN \E off \in ReadInt(elemOffset, 0..MaxOffset),
                  base \in ReadInt(f._allocatedPtr, DataPtrs) :
                 eval' = Eval("omTensorGetElem", <<t, indexes>>, <<base, off>>)
  /\ UNCHANGED rtVars
  /\ UNCHANGED <<impVars, cmpVars>>

\* omTensorGetElemByOffset<T>(omt, index): ((T *)omt->_allocatedPtr)[index]
omTensorGetElemByOffset ==
  /\ rtStatus = "running"
  /\ \E t \in handles, index \in 0..MaxOffset :
       \E base \in ReadInt(tensors[t]._allocatedPtr, DataPtrs) :
         eval' = Eval("omTensorGetElemByOffset", <<t, index>>, <<base, index>>)
  /\ UNCHANGED rtVars
  /\ UNCHANGED <<impVars, cmpVars>>

\* C19: omTensorGetElem and omTensorGetElemByOffset index the pointer that
\* omTensorGetDataPtr returns, the aligned one, also after omTensorSetPtr
\* installed an aligned pointer different from the allocated one.  (Stated
\* for descriptors whose pointer fields are assigned.)
C19_AccessorsAddressAlignedView ==
  [][(/\ rtVars' = rtVars
      /\ eval'.op \in AccessorOps
      /\ tensors[eval'.args[1]]._allocatedPtr # Uninit)
       => eval'.result[1] = omTensorGetDataPtr(tensors[eval'.args[1]])]_vars

(***************************************************************************)
(* omTensorComputeIndexSet and omTensorComputeElemOffset, called on the    *)
(* descriptor a creation returned for the caller's shape array: a caller   *)
(* that enumerates the index set and asks for the offset of each index.    *)
(***************************************************************************)
\* the call omTensorComputeIndexSet(omt); reading an unassigned _rank or
\* _shape entry is undefined
ComputeIndexSetCall ==
  /\ rtStatus = "running"
  /\ \E t \in handles :
       LET f == tensors[t]
       IN IF f._rank = Uninit \/ Uninit \in Range(ShapeOf(heap, mem, f))
            THEN \/ /\ rtStatus' = "crash"
                    /\ UNCHANGED eval
                 \/ /\ eval' = Eval("omTensorComputeIndexSet", <<t>>, <<>>)
                    /\ UNCHANGED rtStatus
            ELSE /\ eval' = Eval("omTensorComputeIndexSet", <<t>>,
                                 omTensorComputeIndexSet(ShapeOf(heap, mem, f)))
                 /\ UNCHANGED rtStatus
  /\ UNCHANGED <<heap, tensors, mem, buffers, handles, call>>
  /\ UNCHANGED <<impVars, cmpVars>>

\* the indices a caller enumerates for descriptor f, each with its position
\* (from 0) in omTensorComputeIndexSet(f)
Enumerated(h, m, f) ==
  IF f._rank = Uninit THEN {}
  ELSE LET S == omTensorComputeIndexSet(ShapeOf(h, m, f))
       IN {<<k - 1, S[k]>> : k \in 1..Len(S)}

\* the call omTensorComputeElemOffset(omt, indexes) on the k-th index of the
\* index set
ComputeElemOffsetCall ==
  /\ rtStatus = "running"
  /\ \E t \in handles :
       \E e \in Enumerated(heap, mem, tensors[t]) :
         \E off \in ReadInt(omTensorComputeElemOffset(heap, mem, tensors[t], e[2]),
                            0..MaxOffset) :
           eval' = Eval("omTensorComputeElemOffset", <<t, e[1], e[2]>>, <<off>>)
  /\ UNCHANGED rtVars
  /\ UNCHANGED <<impVars, cmpVars>>

\* the multi-indices valid for a shape
ValidIndices(shape) ==
  {idx \in [1..Len(shape) -> 0..MaxExtent] :
     \A d \in 1..Len(shape) : idx[d] < shape[d]}

\* the descriptor is as a creation with all its allocations left it, for a
\* shape with all extents > 0
FreshDense(t) ==
  /\ t \in handles
  /\ LiveBlock(heap, tensors[t]._shape)
  /\ LiveBlock(heap, tensors[t]._stride)
  /\ \A k \in 1..Len(GivenShape) : GivenShape[k] > 0

\* C20: for a freshly created dense descriptor with all extents > 0,
\* omTensorComputeIndexSet yields every valid multi-index exactly once, in
\* row-major order, and omTensorComputeElemOffset maps the k-th enumerated
\* index (k from 0) to linear offset k, so that the offsets are exactly
\* 0 .. numElements - 1 without repeats.
C20_IndexSetIsRowMajor ==
  /\ (eval.op = "omTensorComputeIndexSet" /\ FreshDense(eval.args[1]))
       => LET S == eval.result
              r == Len(GivenShape)
          IN /\ Len(S) = getNumOfElems(GivenShape, r)
             /\ Range(S) = ValidIndices(GivenShape)
             /\ \A j, k \in 1..Len(S) : S[j] = S[k] => j = k
             /\ \A k \in 1..Len(S) : RowMajor(GivenShape, S[k], r) = k - 1
  /\ (eval.op = "omTensorComputeElemOffset" /\ FreshDense(eval.args[1]))
       => /\ eval.result[1] = eval.args[2]
          /\ eval.result[1] \in 0..(getNumOfElems(GivenShape, Len(GivenShape)) - 1)

\* for shape [2, 3] the caller got offset 5 for index [1, 2], the last of
\* the six
C20_Witness ==
  /\ eval.op = "omTensorComputeElemOffset"
  /\ FreshDense(eval.args[1])
  /\ GivenShape = <<2, 3>>
  /\ eval.args[3] = <<1, 2>>
  /\ eval.args[2] = 5
  /\ eval.result = <<5>>

(***************************************************************************)
(* OnnxOnnfSymbolMapping on its own: a caller that binds names and looks   *)
(* them up, raw and legalized.                                             *)
(***************************************************************************)
na_b == <<"a", "_", "b">>

n7_colon == <<"7", ":">>

\* the names handed to the three operations
SymbolNames == {nx, na_slash_b, na_dash_b, na_b, n7_colon, legalize_name(n7_colon)}

\* the values bound
SymbolValues == {BlockArgument(1), OpResult(1, 1)}

\* frontend_symbols_.AddMapping(name, tensor)
AddMappingCall ==
  /\ \E name \in SymbolNames, tensor \in SymbolValues :
       /\ onnx_name2onnf_tensor' = AddMapping(onnx_name2onnf_tensor, name, tensor)
       /\ eval' = Eval("AddMapping", <<name, tensor>>, <<>>)
  /\ UNCHANGED <<graph, pc, it, arg_types, func_type, block, ret_types, ret_vals,
                 status>>
  /\ UNCHANGED <<rtVars, cmpVars>>

\* frontend_symbols_.ContainKey(name)
ContainKeyCall ==
  /\ \E name \in SymbolNames :
       eval' = Eval("ContainKey", <<name>>,
                    <<ContainKey(onnx_name2onnf_tensor, name)>>)
  /\ UNCHANGED <<impVars, rtVars, cmpVars>>

\* frontend_symbols_.GetTensorByOnnxName(name); OutOfRange is the exception
GetTensorByOnnxNameCall ==
  /\ \E name \in SymbolNames :
       eval' = Eval("GetTensorByOnnxName", <<name>>,
                    <<GetTensorByOnnxName(onnx_name2onnf_tensor, name)>>)
  /\ UNCHANGED <<impVars, rtVars, cmpVars>>

\* C24: after AddMapping(n, v) for a name n that was not bound, the lookups
\* of n and of legalize_name(n) both return v and ContainKey finds
\* legalize_name(n); and whenever ContainKey finds the legalized name the
\* importer passes it, the lookup of that name, raw or legalized, does not
\* fail.
C24_BindThenLookup ==
  [][/\ (/\ eval'.op = "AddMapping"
         /\ legalize_name(eval'.args[1]) \notin DOMAIN onnx_name2onnf_tensor)
          => LET n == eval'.args[1]
                 v == eval'.args[2]
                 legal == legalize_name(n)
             IN /\ legal \in DOMAIN onnx_name2onnf_tensor'
                /\ onnx_name2onnf_tensor'[legalize_name(n)] = v
                /\ onnx_name2onnf_tensor'[legalize_name(legal)] = v
                /\ \A k \in DOMAIN onnx_name2onnf_tensor :
                     onnx_name2onnf_tensor'[k] = onnx_name2onnf_tensor[k]
     /\ (/\ eval'.op = "GetTensorByOnnxName"
         /\ legalize_name(eval'.args[1]) \in DOMAIN onnx_name2onnf_tensor)
          => /\ eval'.result[1] # OutOfRange
             /\ eval'.result[1] = onnx_name2onnf_tensor[legalize_name(eval'.args[1])]
     /\ (/\ eval'.op = "ContainKey"
         /\ eval'.args[1] = legalize_name(eval'.args[1]))
          => (eval'.result[1] <=> eval'.args[1] \in DOMAIN onnx_name2onnf_tensor)
     /\ \A k \in DOMAIN onnx_name2onnf_tensor' : legalize_name(k) = k]_vars

\* the caller bound "a/b" in an empty table; the one key is "a_b", with the
\* value it passed
C24_Witness ==
  /\ eval.op = "AddMapping"
  /\ eval.args[1] = na_slash_b
  /\ DOMAIN onnx_name2onnf_tensor = {na_b}
  /\ onnx_name2onnf_tensor[na_b] = eval.args[2]

(***************************************************************************)
(* Specifications.                                                         *)
(***************************************************************************)
ImpNext ==
  \/ ImportInputTensorType
  \/ ImportInputTensorSymbol
  \/ ImportNode
  \/ ImportOutputTensor
  \/ ImportGraphReturn

RtNext ==
  \/ CallerMalloc
  \/ omTensorCreate
  \/ omTensorCreateWithOwnership
  \/ omTensorCreateEmpty
  \/ omTensorDestroy
  \/ omTensorSetPtr

CmpNext == omTensorAreTwoOmtsClose

LegalizeNext == LegalizeCall

SymbolNext ==
  \/ AddMappingCall
  \/ ContainKeyCall
  \/ GetTensorByOnnxNameCall

IndexNext ==
  \/ omTensorCreate
  \/ ComputeIndexSetCall
  \/ ComputeElemOffsetCall

ElemNext ==
  \/ CallerMalloc
  \/ omTensorCreateWithOwnership
  \/ omTensorSetPtr
  \/ GetDataPtrCall
  \/ omTensorGetElem
  \/ omTensorGetElemByOffset

CreateNext ==
  \/ omTensorCreate
  \/ omTensorCreateWithOwnership
  \/ omTensorCreateEmpty

ShapeNext ==
  \/ omTensorSetShape
  \/ omTensorSetStrides
  \/ GetNumElemsCall

\* the importer before a graph is handed to it
ImpIdle ==
  /\ graph = [input |-> <<>>, node |-> <<>>, output |-> <<>>]
  /\ pc = "ImportInputTensorType"
  /\ it = 0
  /\ arg_types = <<>>
  /\ func_type = NoFunc
  /\ block = <<>>
  /\ onnx_name2onnf_tensor = <<>>
  /\ ret_types = <<>>
  /\ ret_vals = <<>>
  /\ status = "running"

\* the importer, with no tensor runtime beside it
Init == ImpInit /\ RtInit /\ CmpIdle /\ EvalIdle

Next == ImpNext

Spec == Init /\ [][Next]_vars

\* the tensor runtime under a caller that creates, repoints and destroys
InitRuntime == ImpIdle /\ RtInit /\ CmpIdle /\ EvalIdle

SpecRuntime == InitRuntime /\ [][RtNext]_vars

\* one comparison of two tensors
InitClose == ImpIdle /\ RtInit /\ CmpInit /\ EvalIdle

SpecClose == InitClose /\ [][CmpNext]_vars

\* one descriptor under a caller that resets its shape and strides
InitShape == ImpIdle /\ ShapeInit /\ CmpIdle /\ EvalIdle

SpecShape == InitShape /\ [][ShapeNext]_vars

\* one creation from a shape array of the caller
InitCreate == ImpIdle /\ CreateInit /\ CmpIdle /\ EvalIdle

SpecCreate == InitCreate /\ [][CreateNext]_vars

\* legalize_name on one name
InitLegalize == ImpIdle /\ RtInit /\ CmpIdle /\ LegalizeInit

SpecLegalize == InitLegalize /\ [][LegalizeNext]_vars

\* the element accessors under a caller that creates and repoints
InitElem == ImpIdle /\ RtInit /\ CmpIdle /\ EvalIdle

SpecElem == InitElem /\ [][ElemNext]_vars

\* index set and offsets of the descriptor created for one shape array
InitIndex == ImpIdle /\ CreateInit /\ CmpIdle /\ EvalIdle

SpecIndex == InitIndex /\ [][IndexNext]_vars

\* the symbol table under a caller that binds and looks up
InitSymbols == ImpIdle /\ RtInit /\ CmpIdle /\ EvalIdle

SpecSymbols == InitSymbols /\ [][SymbolNext]_vars

====
